---- MODULE Spec2Model ----
(***************************************************************************)
(* A model of the instantcube cube engine (core/cube, core/moves,          *)
(* core/validation), of the beginner's-method solver                       *)
(* (algorithms/beginner.ts), of the scramble field (ScrambleInput.tsx) and *)
(* of the page with its step-by-step playback (page.tsx,                   *)
(* SolutionDisplay.tsx).                                                   *)
(*                                                                         *)
(* A CubeState is a function from the six faces to sequences of nine       *)
(* colours.  The source indexes stickers 0..8; TLA+ sequences are          *)
(* 1-based, so source index i is position i+1 and every table below is     *)
(* written with the source's 0-based indices through At / Put3.            *)
(***************************************************************************)
EXTENDS Integers, Sequences, FiniteSets, TLC

\* ------------------------------------------------------------------ types
Faces == <<"U", "D", "L", "R", "F", "B">>

Colors == <<"W", "Y", "R", "O", "B", "G">>

FaceSet == {Faces[i] : i \in 1..6}

ColorSet == {Colors[i] : i \in 1..6}

BaseMoves == {"U", "D", "L", "R", "F", "B"}

Moves == {"U", "U'", "U2", "D", "D'", "D2", "L", "L'", "L2",
          "R", "R'", "R2", "F", "F'", "F2", "B", "B'", "B2"}

\* move[0] and move.slice(1) of the 18 move strings
BaseOf(move) ==
    CASE move \in {"U", "U'", "U2"} -> "U"
      [] move \in {"D", "D'", "D2"} -> "D"
      [] move \in {"L", "L'", "L2"} -> "L"
      [] move \in {"R", "R'", "R2"} -> "R"
      [] move \in {"F", "F'", "F2"} -> "F"
      [] move \in {"B", "B'", "B2"} -> "B"

ModifierOf(move) ==
    CASE move \in BaseMoves -> ""
      [] move \in {"U'", "D'", "L'", "R'", "F'", "B'"} -> "'"
      [] move \in {"U2", "D2", "L2", "R2", "F2", "B2"} -> "2"

\* `${base}${modifier}`
MkMove(base, modifier) ==
    CHOOSE m \in Moves : BaseOf(m) = base /\ ModifierOf(m) = modifier

\* state[face][i] with the source's 0-based index
At(s, face, i) == s[face][i + 1]

\* ---------------------------------------------------------- bounds
MaxMoves == 2

\* ------------------------------------------------------- cube.ts
getSolvedState ==
    [U |-> <<"W", "W", "W", "W", "W", "W", "W", "W", "W">>,
     D |-> <<"Y", "Y", "Y", "Y", "Y", "Y", "Y", "Y", "Y">>,
     L |-> <<"O", "O", "O", "O", "O", "O", "O", "O", "O">>,
     R |-> <<"R", "R", "R", "R", "R", "R", "R", "R", "R">>,
     F |-> <<"G", "G", "G", "G", "G", "G", "G", "G", "G">>,
     B |-> <<"B", "B", "B", "B", "B", "B", "B", "B", "B">>]

\* isSolved comparing every sticker with the centre of U instead of the
\* centre of its own face
isSolved_upCenter(s) ==
    \A f \in FaceSet : \A i \in 0..8 : At(s, f, i) = At(s, "U", 4)

isSolved(s) ==
    \A f \in FaceSet : \A i \in 0..8 : At(s, f, i) = At(s, f, 4)

\* ------------------------------------------------- validation.ts
\* hasAllStickers accepting faces of nine or more stickers
hasAllStickers_atLeastNine(s) ==
    \A f \in FaceSet : f \in DOMAIN s /\ Len(s[f]) >= 9

hasAllStickers(s) ==
    \A f \in FaceSet : f \in DOMAIN s /\ Len(s[f]) = 9

\* the counting loop stopping one sticker short of each face's end
ColorCount_offByOne(s, color) ==
    LET n(f) == Cardinality({i \in 0..7 : At(s, f, i) = color})
    IN  n("U") + n("D") + n("L") + n("R") + n("F") + n("B")

\* colorCounts[color] || 0 after the counting loop
ColorCount(s, color) ==
    LET n(f) == Cardinality({i \in 0..8 : At(s, f, i) = color})
    IN  n("U") + n("D") + n("L") + n("R") + n("F") + n("B")

\* the check reporting only the colours that appear more than nine times
validateColorCounts_onlyExcess(s) ==
    LET bad == SelectSeq(Colors, LAMBDA c : ColorCount(s, c) > 9)
    IN  [k \in 1..Len(bad) |-> <<"Color", bad[k], ColorCount(s, bad[k])>>]

validateColorCounts(s) ==
    LET bad == SelectSeq(Colors, LAMBDA c : ColorCount(s, c) # 9)
    IN  [k \in 1..Len(bad) |-> <<"Color", bad[k], ColorCount(s, bad[k])>>]

validateCenters(s) ==
    IF Cardinality({At(s, f, 4) : f \in FaceSet}) # 6
    THEN << <<"Centers must all be different colors">> >>
    ELSE << >>

hasValidParity(s) ==
    \A f \in FaceSet : \A i \in 0..8 : At(s, f, i) \in ColorSet

\* validateCubeState without the centre check
validateCubeState_noCenters(s) ==
    IF ~hasAllStickers(s)
    THEN [valid |-> FALSE,
          errors |-> << <<"Cube state is incomplete - missing stickers">> >>]
    ELSE LET errors1 == validateColorCounts(s)
             errors  == IF errors1 = << >> /\ ~hasValidParity(s)
                        THEN << <<"Cube configuration is impossible (invalid parity)">> >>
                        ELSE errors1
         IN  [valid |-> errors = << >>, errors |-> errors]

validateCubeState(s) ==
    IF ~hasAllStickers(s)
    THEN [valid |-> FALSE,
          errors |-> << <<"Cube state is incomplete - missing stickers">> >>]
    ELSE LET errors1 == validateColorCounts(s) \o validateCenters(s)
             errors  == IF errors1 = << >> /\ ~hasValidParity(s)
                        THEN << <<"Cube configuration is impossible (invalid parity)">> >>
                        ELSE errors1
         IN  [valid |-> errors = << >>, errors |-> errors]

\* ------------------------------------------------------ moves.ts
\* row with the stickers at 0-based indices i, j, k replaced by a, b, c
Put3(row, i, j, k, a, b, c) ==
    [row EXCEPT ![i + 1] = a, ![j + 1] = b, ![k + 1] = c]

\* rotateU cycling the rows 3,4,5 instead of the top rows 0,1,2
rotateU_midRow(s) ==
    LET temp == <<At(s, "F", 3), At(s, "F", 4), At(s, "F", 5)>>
    IN  [s EXCEPT
          !.F = Put3(@, 3, 4, 5, At(s, "L", 3), At(s, "L", 4), At(s, "L", 5)),
          !.L = Put3(@, 3, 4, 5, At(s, "B", 3), At(s, "B", 4), At(s, "B", 5)),
          !.B = Put3(@, 3, 4, 5, At(s, "R", 3), At(s, "R", 4), At(s, "R", 5)),
          !.R = Put3(@, 3, 4, 5, temp[1], temp[2], temp[3])]

rotateU(s) ==
    LET temp == <<At(s, "F", 0), At(s, "F", 1), At(s, "F", 2)>>
    IN  [s EXCEPT
          !.F = Put3(@, 0, 1, 2, At(s, "L", 0), At(s, "L", 1), At(s, "L", 2)),
          !.L = Put3(@, 0, 1, 2, At(s, "B", 0), At(s, "B", 1), At(s, "B", 2)),
          !.B = Put3(@, 0, 1, 2, At(s, "R", 0), At(s, "R", 1), At(s, "R", 2)),
          !.R = Put3(@, 0, 1, 2, temp[1], temp[2], temp[3])]

\* rotateD with the final write of temp into L left out
rotateD_noTemp(s) ==
    [s EXCEPT
      !.F = Put3(@, 6, 7, 8, At(s, "R", 6), At(s, "R", 7), At(s, "R", 8)),
      !.R = Put3(@, 6, 7, 8, At(s, "B", 6), At(s, "B", 7), At(s, "B", 8)),
      !.B = Put3(@, 6, 7, 8, At(s, "L", 6), At(s, "L", 7), At(s, "L", 8))]

rotateD(s) ==
    LET temp == <<At(s, "F", 6), At(s, "F", 7), At(s, "F", 8)>>
    IN  [s EXCEPT
          !.F = Put3(@, 6, 7, 8, At(s, "R", 6), At(s, "R", 7), At(s, "R", 8)),
          !.R = Put3(@, 6, 7, 8, At(s, "B", 6), At(s, "B", 7), At(s, "B", 8)),
          !.B = Put3(@, 6, 7, 8, At(s, "L", 6), At(s, "L", 7), At(s, "L", 8)),
          !.L = Put3(@, 6, 7, 8, temp[1], temp[2], temp[3])]

rotateL(s) ==
    LET temp == <<At(s, "U", 0), At(s, "U", 3), At(s, "U", 6)>>
    IN  [s EXCEPT
          !.U = Put3(@, 0, 3, 6, At(s, "B", 8), At(s, "B", 5), At(s, "B", 2)),
          !.B = Put3(@, 8, 5, 2, At(s, "D", 0), At(s, "D", 3), At(s, "D", 6)),
          !.D = Put3(@, 0, 3, 6, At(s, "F", 0), At(s, "F", 3), At(s, "F", 6)),
          !.F = Put3(@, 0, 3, 6, temp[1], temp[2], temp[3])]

rotateR(s) ==
    LET temp == <<At(s, "U", 2), At(s, "U", 5), At(s, "U", 8)>>
    IN  [s EXCEPT
          !.U = Put3(@, 2, 5, 8, At(s, "F", 2), At(s, "F", 5), At(s, "F", 8)),
          !.F = Put3(@, 2, 5, 8, At(s, "D", 2), At(s, "D", 5), At(s, "D", 8)),
          !.D = Put3(@, 2, 5, 8, At(s, "B", 6), At(s, "B", 3), At(s, "B", 0)),
          !.B = Put3(@, 6, 3, 0, temp[1], temp[2], temp[3])]

rotateF(s) ==
    LET temp == <<At(s, "U", 6), At(s, "U", 7), At(s, "U", 8)>>
    IN  [s EXCEPT
          !.U = Put3(@, 6, 7, 8, At(s, "L", 8), At(s, "L", 5), At(s, "L", 2)),
          !.L = Put3(@, 8, 5, 2, At(s, "D", 2), At(s, "D", 1), At(s, "D", 0)),
          !.D = Put3(@, 2, 1, 0, At(s, "R", 0), At(s, "R", 3), At(s, "R", 6)),
          !.R = Put3(@, 0, 3, 6, temp[1], temp[2], temp[3])]

\* rotateB writing the D row in the order 6,7,8 instead of 8,7,6
rotateB_rowOrder(s) ==
    LET temp == <<At(s, "U", 0), At(s, "U", 1), At(s, "U", 2)>>
    IN  [s EXCEPT
          !.U = Put3(@, 0, 1, 2, At(s, "R", 2), At(s, "R", 5), At(s, "R", 8)),
          !.R = Put3(@, 2, 5, 8, At(s, "D", 8), At(s, "D", 7), At(s, "D", 6)),
          !.D = Put3(@, 6, 7, 8, At(s, "L", 6), At(s, "L", 3), At(s, "L", 0)),
          !.L = Put3(@, 6, 3, 0, temp[1], temp[2], temp[3])]

rotateB(s) ==
    LET temp == <<At(s, "U", 0), At(s, "U", 1), At(s, "U", 2)>>
    IN  [s EXCEPT
          !.U = Put3(@, 0, 1, 2, At(s, "R", 2), At(s, "R", 5), At(s, "R", 8)),
          !.R = Put3(@, 2, 5, 8, At(s, "D", 8), At(s, "D", 7), At(s, "D", 6)),
          !.D = Put3(@, 8, 7, 6, At(s, "L", 6), At(s, "L", 3), At(s, "L", 0)),
          !.L = Put3(@, 6, 3, 0, temp[1], temp[2], temp[3])]

\* the turned face's own 3x3 grid: [6,3,0, 7,4,1, 8,5,2]
rotateGrid(f) ==
    <<f[7], f[4], f[1],
      f[8], f[5], f[2],
      f[9], f[6], f[3]>>

\* rotateFace with the U case falling through to the D rotation
rotateFace_wrongCase(s, face) ==
    LET s1 == [s EXCEPT ![face] = rotateGrid(s[face])]
    IN  CASE face = "U" -> rotateD(s1)
          [] face = "D" -> rotateD(s1)
          [] face = "L" -> rotateL(s1)
          [] face = "R" -> rotateR(s1)
          [] face = "F" -> rotateF(s1)
          [] face = "B" -> rotateB(s1)

rotateFace(s, face) ==
    LET s1 == [s EXCEPT ![face] = rotateGrid(s[face])]
    IN  CASE face = "U" -> rotateU(s1)
          [] face = "D" -> rotateD(s1)
          [] face = "L" -> rotateL(s1)
          [] face = "R" -> rotateR(s1)
          [] face = "F" -> rotateF(s1)
          [] face = "B" -> rotateB(s1)

\* applyMove with the prime modifier turning the face once
rotatedState_primeOnce(s, move) ==
    LET baseMove == BaseOf(move)
        modifier == ModifierOf(move)
    IN  IF modifier = "2"
        THEN rotateFace(rotateFace(s, baseMove), baseMove)
        ELSE rotateFace(s, baseMove)

\* the local `state` of applyMove right before cube.setState(state)
rotatedState(s, move) ==
    LET baseMove == BaseOf(move)
        modifier == ModifierOf(move)
    IN  IF modifier = "2"
        THEN rotateFace(rotateFace(s, baseMove), baseMove)
        ELSE IF modifier = "'"
        THEN rotateFace(rotateFace(rotateFace(s, baseMove), baseMove), baseMove)
        ELSE rotateFace(s, baseMove)

\* setState assigning this.state before it validates
setState_assignFirst(cur, s) ==
    [state |-> s, threw |-> ~validateCubeState(s).valid]

\* RubiksCube.setState on a handle holding cur: the state held afterwards
\* and whether the call threw
setState(cur, s) ==
    IF validateCubeState(s).valid
    THEN [state |-> s, threw |-> FALSE]
    ELSE [state |-> cur, threw |-> TRUE]

applyMove(s, move) == setState(s, rotatedState(s, move))

\* moves.forEach(move => applyMove(cube, move)) over moves[lo..hi]; a throw
\* ends the loop with the moves applied so far
RECURSIVE applyRange(_, _, _, _)
applyRange(r, moves, lo, hi) ==
    IF r.threw \/ lo > hi THEN r
    ELSE IF lo = hi THEN applyMove(r.state, moves[lo])
    ELSE LET mid == (lo + hi) \div 2
         IN  applyRange(applyRange(r, moves, lo, mid), moves, mid + 1, hi)

applyMoves(s, moves) ==
    applyRange([state |-> s, threw |-> FALSE], moves, 1, Len(moves))

\* invertMove without the branch for the '2' modifier
invertMove_noDouble(move) ==
    LET base == BaseOf(move)
        modifier == ModifierOf(move)
    IN  IF modifier = "'" THEN MkMove(base, "")
        ELSE MkMove(base, "'")

invertMove(move) ==
    LET base == BaseOf(move)
        modifier == ModifierOf(move)
    IN  IF modifier = "'" THEN MkMove(base, "")
        ELSE IF modifier = "2" THEN move
        ELSE MkMove(base, "'")

\* invertMoves without the reverse()
invertMoves_noReverse(moves) ==
    [k \in 1..Len(moves) |-> invertMove(moves[k])]

\* moves.map(invertMove).reverse()
invertMoves(moves) ==
    [k \in 1..Len(moves) |-> invertMove(moves[Len(moves) + 1 - k])]

\* ------------------------------------------------- start states
\* 'should validate a scrambled but legal cube'
scrambledState ==
    [U |-> <<"W", "G", "W", "O", "W", "R", "W", "B", "W">>,
     D |-> <<"Y", "B", "Y", "R", "Y", "O", "Y", "G", "Y">>,
     L |-> <<"O", "W", "O", "G", "O", "B", "O", "Y", "O">>,
     R |-> <<"R", "Y", "R", "B", "R", "G", "R", "W", "R">>,
     F |-> <<"G", "O", "G", "Y", "G", "W", "G", "R", "G">>,
     B |-> <<"B", "R", "B", "W", "B", "Y", "B", "O", "B">>]

\* a caller-supplied CubeState in which neighbouring stickers all differ
stripedState ==
    [U |-> <<"W", "Y", "R", "O", "B", "G", "W", "Y", "R">>,
     D |-> <<"Y", "R", "O", "B", "G", "W", "Y", "R", "O">>,
     L |-> <<"R", "O", "B", "G", "W", "Y", "R", "O", "B">>,
     R |-> <<"O", "B", "G", "W", "Y", "R", "O", "B", "G">>,
     F |-> <<"B", "G", "W", "Y", "R", "O", "B", "G", "W">>,
     B |-> <<"G", "W", "Y", "R", "O", "B", "G", "W", "Y">>]

\* the states handed to new RubiksCube(state) / setState(state)
SuppliedStates == {getSolvedState, scrambledState, stripedState}

\* ------------------------------------------------------- state
VARIABLES
    state,        \* RubiksCube.state of the handle
    initial,      \* the state the handle held when last constructed / set / reset
    applied,      \* the moves applied to the handle since then
    threw,        \* an applyMove on the handle raised
    pc,           \* position inside BeginnerSolver.solve
    workingCube,  \* solve: state of the private clone
    steps,        \* solve: the local steps array
    moves,        \* stage: the local moves array
    iterations,   \* stage: the loop counter
    idx,          \* stage: position in the edges / corners list
    solution,     \* the value returned by solve
    ext,          \* the object the caller of the handle holds
    mutations,    \* the number of writes the caller made to its objects
    lastCall,     \* the handle method last called and the error it raised
    workingHandle, \* solve: the handle the stages work on
    scramble,     \* ScrambleInput: the text of the scramble field
    scrambleError, \* ScrambleInput: the error shown under the field
    cubeState,    \* the page's cubeState, set through onChange
    home          \* the page's other state: solution, isLoading, error,
                  \* currentStepIndex

vars == <<state, initial, applied, threw, pc, workingCube, steps, moves,
          iterations, idx, solution, ext, mutations, lastCall, workingHandle,
          scramble, scrambleError, cubeState, home>>

inputVars == <<scramble, scrambleError, cubeState, home>>

callerVars == <<ext, mutations, lastCall>>

\* what no stage of solve touches
frameVars == <<scramble, scrambleError, cubeState, home, ext, mutations,
               lastCall, workingHandle>>

solverVars == <<pc, workingCube, steps, moves, iterations, idx, solution,
                workingHandle>>

NoCube == << >>

NoSolution == << >>

NoError == << >>

\* new Error(`Invalid cube state: ${validation.errors.join(', ')}`)
InvalidStateError(s) == <<"Invalid cube state", validateCubeState(s).errors>>

\* a caller-held object: where it came from, the face it copies (getFace),
\* its value, whether it is the object this.state refers to, and how many
\* times the caller wrote to it
NoObject ==
    [origin |-> "none", face |-> "", value |-> NoCube, shared |-> FALSE,
     writes |-> 0]

\* this.state = structuredClone(...) / this.getSolvedState(): this.state is
\* a new object that no caller holds
Unshared(obj) == [obj EXCEPT !.shared = FALSE]

Called(op, error) == [op |-> op, error |-> error]

CallerIdle ==
    /\ ext = NoObject
    /\ mutations = 0
    /\ lastCall = Called("constructor", NoError)

\* useState(null), useState(false), useState(null), useState(-1) of the page
HomeIdle ==
    [solution |-> NoSolution, isLoading |-> FALSE, error |-> NoError,
     currentStepIndex |-> -1]

\* useState(''), useState(null) of ScrambleInput and the useState calls of
\* the page
InputIdle ==
    /\ scramble = << >>
    /\ scrambleError = NoError
    /\ cubeState = NoCube
    /\ home = HomeIdle

SolverIdle ==
    /\ pc = "idle"
    /\ workingCube = NoCube
    /\ steps = << >>
    /\ moves = << >>
    /\ iterations = 0
    /\ idx = 0
    /\ solution = NoSolution
    /\ workingHandle = "none"

\* new RubiksCube(state?) with a state that passes validation
Init ==
    /\ state \in {s \in SuppliedStates : validateCubeState(s).valid}
    /\ initial = state
    /\ applied = << >>
    /\ threw = FALSE
    /\ SolverIdle
    /\ CallerIdle
    /\ InputIdle

\* applyMove(cube, m)
ApplyMove(m) ==
    /\ pc = "idle"
    /\ ~threw
    /\ Len(applied) < MaxMoves
    /\ LET r == applyMove(state, m)
       IN  /\ state' = r.state
           /\ threw' = r.threw
           /\ ext' = IF r.threw THEN ext ELSE Unshared(ext)
           /\ lastCall' = Called("applyMove",
                                 IF r.threw
                                 THEN InvalidStateError(rotatedState(state, m))
                                 ELSE NoError)
    /\ applied' = Append(applied, m)
    /\ UNCHANGED <<inputVars, initial, solverVars, mutations>>

\* cube.setState(s)
SetState(s) ==
    /\ pc = "idle"
    /\ ~threw
    /\ LET r == setState(state, s)
       IN  /\ state' = r.state
           /\ threw' = r.threw
           /\ initial' = r.state
           /\ ext' = IF r.threw THEN ext ELSE Unshared(ext)
           /\ lastCall' = Called("setState",
                                 IF r.threw THEN InvalidStateError(s)
                                 ELSE NoError)
    /\ applied' = << >>
    /\ UNCHANGED <<inputVars, solverVars, mutations>>

\* cube.reset()
Reset ==
    /\ pc = "idle"
    /\ applied # << >>
    /\ state' = getSolvedState
    /\ initial' = getSolvedState
    /\ applied' = << >>
    /\ threw' = FALSE
    /\ ext' = Unshared(ext)
    /\ lastCall' = Called("reset", NoError)
    /\ UNCHANGED <<inputVars, solverVars, mutations>>

Next ==
    \/ \E m \in Moves : ApplyMove(m)
    \/ \E s \in SuppliedStates : SetState(s)
    \/ Reset

Spec == Init /\ [][Next]_vars

\* ------------------------------------------- the handle and its caller
\* states of the validation tests that fail validation
tooManyWhite ==
    [getSolvedState EXCEPT !.D = <<"W", "Y", "Y", "Y", "Y", "Y", "Y", "Y", "Y">>]

duplicateCenters ==
    [getSolvedState EXCEPT
       !.D = <<"Y", "Y", "Y", "Y", "W", "Y", "Y", "Y", "Y">>,
       !.B = <<"B", "B", "B", "B", "B", "B", "B", "Y", "B">>]

incompleteState == [getSolvedState EXCEPT !.U = <<"W", "W", "W">>]

\* objects without the face B and with ten stickers on L
missingFaceState ==
    [f \in FaceSet \ {"B"} |-> getSolvedState[f]]

longFaceState == [getSolvedState EXCEPT !.L = Append(@, "O")]

\* nine stickers of every colour, the centre of D swapped with U[0]
swappedCenter ==
    [getSolvedState EXCEPT
       !.U = <<"Y", "W", "W", "W", "W", "W", "W", "W", "W">>,
       !.D = <<"Y", "Y", "Y", "Y", "W", "Y", "Y", "Y", "Y">>]

InvalidStates ==
    {tooManyWhite, duplicateCenters, swappedCenter, incompleteState,
     missingFaceState, longFaceState}

\* the objects a caller builds before it has a handle
CallerStates == {getSolvedState} \cup InvalidStates

Supplied(s) ==
    [origin |-> "supplied", face |-> "", value |-> s, shared |-> FALSE,
     writes |-> 0]

\* the moves, faces, stickers and values the caller uses
HandleMoves == {"U", "R'"}

FaceCopies == {"U"}

WriteSites == {<<"U", 0>>, <<"R", 0>>, <<"D", 4>>}

WriteColors == {"W", "R", "X"}

MaxMutations == 1

\* getState returning this.state itself
getState_sameObject(s) ==
    [origin |-> "getState", face |-> "", value |-> s, shared |-> TRUE,
     writes |-> 0]

\* RubiksCube.getState: a structuredClone of this.state
getState(s) ==
    [origin |-> "getState", face |-> "", value |-> s, shared |-> FALSE,
     writes |-> 0]

\* RubiksCube.getFace: [...this.state[face]]
getFace(s, face) ==
    [origin |-> "getFace", face |-> face, value |-> s[face], shared |-> FALSE,
     writes |-> 0]

\* before new RubiksCube(...): the caller holds nothing or a state object
InitHandle ==
    /\ state = NoCube
    /\ initial = NoCube
    /\ applied = << >>
    /\ threw = FALSE
    /\ pc = "new"
    /\ workingCube = NoCube
    /\ steps = << >>
    /\ moves = << >>
    /\ iterations = 0
    /\ idx = 0
    /\ solution = NoSolution
    /\ workingHandle = "none"
    /\ ext \in {NoObject} \cup {Supplied(s) : s \in CallerStates}
    /\ mutations = 0
    /\ lastCall = Called("none", NoError)
    /\ InputIdle

\* new RubiksCube(): this.state = this.getSolvedState()
ConstructDefault ==
    /\ pc = "new"
    /\ ext = NoObject
    /\ state' = getSolvedState
    /\ initial' = getSolvedState
    /\ pc' = "idle"
    /\ lastCall' = Called("constructor", NoError)
    /\ UNCHANGED <<inputVars, applied, threw, workingCube, steps, moves, iterations, idx,
                   solution, workingHandle, ext, mutations>>

\* new RubiksCube(obj): validate, then this.state = initialState
Construct ==
    /\ pc = "new"
    /\ ext.origin = "supplied"
    /\ LET validation == validateCubeState(ext.value)
       IN  IF validation.valid
           THEN /\ state' = ext.value
                /\ initial' = ext.value
                /\ ext' = [ext EXCEPT !.shared = TRUE]
                /\ pc' = "idle"
                /\ threw' = FALSE
                /\ lastCall' = Called("constructor", NoError)
           ELSE /\ pc' = "failed"
                /\ threw' = TRUE
                /\ lastCall' = Called("constructor", InvalidStateError(ext.value))
                /\ UNCHANGED <<inputVars, state, initial, ext>>
    /\ UNCHANGED <<inputVars, applied, workingCube, steps, moves, iterations, idx,
                   solution, workingHandle, mutations>>

\* obj = cube.getState()
GetState ==
    /\ pc = "idle"
    /\ ext' = getState(state)
    /\ lastCall' = Called("getState", NoError)
    /\ UNCHANGED <<inputVars, state, initial, applied, threw, solverVars, mutations>>

\* arr = cube.getFace(face)
GetFace(face) ==
    /\ pc = "idle"
    /\ ext' = getFace(state, face)
    /\ lastCall' = Called("getFace", NoError)
    /\ UNCHANGED <<inputVars, state, initial, applied, threw, solverVars, mutations>>

\* the caller's object changes to newValue; so does this.state when it is
\* that object
CallerWrites(newValue) ==
    /\ pc \in {"new", "idle"}
    /\ mutations < MaxMutations
    /\ ext' = [ext EXCEPT !.value = newValue, !.writes = @ + 1]
    /\ state' = IF ~ext.shared THEN state
                ELSE IF ext.origin = "getFace"
                THEN [state EXCEPT ![ext.face] = newValue]
                ELSE newValue
    /\ mutations' = mutations + 1
    /\ UNCHANGED <<inputVars, initial, applied, threw, solverVars, lastCall>>

\* obj[face][index] = color
WriteSticker(face, index, color) ==
    /\ ext.origin \in {"supplied", "getState"}
    /\ face \in DOMAIN ext.value
    /\ index < Len(ext.value[face])
    /\ ext.value[face][index + 1] # color
    /\ CallerWrites([ext.value EXCEPT ![face][index + 1] = color])

\* arr[index] = color on an array returned by getFace
WriteFaceCopy(index, color) ==
    /\ ext.origin = "getFace"
    /\ ext.value[index + 1] # color
    /\ CallerWrites([ext.value EXCEPT ![index + 1] = color])

\* cube.setState(obj) with the caller's object, fresh from the caller or
\* written to since the handle returned it
SetStateOfCaller ==
    /\ ext.origin \in {"supplied", "getState"}
    /\ ext.origin = "supplied" \/ ext.writes > 0
    /\ SetState(ext.value)

\* JSON.stringify of a one-character string: the character in quotes
stringifyString(c) == <<"\"", c, "\"">>

\* JSON.stringify of an array of strings from index i on, without the
\* brackets: the elements separated by commas
RECURSIVE stringifyItems(_, _)
stringifyItems(arr, i) ==
    IF i > Len(arr) THEN << >>
    ELSE stringifyString(arr[i])
            \o (IF i < Len(arr) THEN <<",">> ELSE << >>)
            \o stringifyItems(arr, i + 1)

stringifyArray(arr) == <<"[">> \o stringifyItems(arr, 1) \o <<"]">>

\* the members "key":[...] of the object for keys[i..], comma separated
RECURSIVE stringifyMembers(_, _, _)
stringifyMembers(s, keys, i) ==
    IF i > Len(keys) THEN << >>
    ELSE stringifyString(keys[i]) \o <<":">> \o stringifyArray(s[keys[i]])
            \o (IF i < Len(keys) THEN <<",">> ELSE << >>)
            \o stringifyMembers(s, keys, i + 1)

\* RubiksCube.toJSON: JSON.stringify(this.state), the text as a sequence of
\* characters
toJSON(s) ==
    LET keys == SelectSeq(Faces, LAMBDA f : f \in DOMAIN s)
    IN  <<"{">> \o stringifyMembers(s, keys, 1) \o <<"}">>

ParseFailure == [ok |-> FALSE, value |-> << >>, next |-> 0]

\* JSON.parse, string literal at t[i]
parseString(t, i) ==
    IF i + 2 <= Len(t) /\ t[i] = "\"" /\ t[i + 1] # "\"" /\ t[i + 2] = "\""
    THEN [ok |-> TRUE, value |-> t[i + 1], next |-> i + 3]
    ELSE ParseFailure

\* JSON.parse, the elements of an array from t[i] to the closing bracket
RECURSIVE parseItems(_, _, _)
parseItems(t, i, acc) ==
    LET item == parseString(t, i)
    IN  IF ~item.ok \/ item.next > Len(t) THEN ParseFailure
        ELSE IF t[item.next] = ","
        THEN parseItems(t, item.next + 1, Append(acc, item.value))
        ELSE IF t[item.next] = "]"
        THEN [ok |-> TRUE, value |-> Append(acc, item.value), next |-> item.next + 1]
        ELSE ParseFailure

parseArray(t, i) ==
    IF i + 1 > Len(t) \/ t[i] # "[" THEN ParseFailure
    ELSE IF t[i + 1] = "]" THEN [ok |-> TRUE, value |-> << >>, next |-> i + 2]
    ELSE parseItems(t, i + 1, << >>)

\* JSON.parse, the members of an object from t[i] to the closing brace; a
\* repeated key keeps its last value
RECURSIVE parseMembers(_, _, _)
parseMembers(t, i, acc) ==
    LET key == parseString(t, i)
    IN  IF ~key.ok \/ key.next > Len(t) \/ t[key.next] # ":" THEN ParseFailure
        ELSE LET arr == parseArray(t, key.next + 1)
                 obj == (key.value :> arr.value) @@ acc
             IN  IF ~arr.ok \/ arr.next > Len(t) THEN ParseFailure
                 ELSE IF t[arr.next] = ","
                 THEN parseMembers(t, arr.next + 1, obj)
                 ELSE IF t[arr.next] = "}"
                 THEN [ok |-> TRUE, value |-> obj, next |-> arr.next + 1]
                 ELSE ParseFailure

\* JSON.parse of a text that holds an object of string arrays
parseJSON(t) ==
    LET r == IF Len(t) < 2 \/ t[1] # "{" THEN ParseFailure
             ELSE IF t[2] = "}" THEN [ok |-> TRUE, value |-> << >>, next |-> 3]
             ELSE parseMembers(t, 2, << >>)
    IN  IF r.ok /\ r.next = Len(t) + 1 THEN r ELSE ParseFailure

\* RubiksCube.fromJSON: JSON.parse, then new RubiksCube(state); the state
\* of the new handle, or the error raised
fromJSON(json) ==
    LET parsed == parseJSON(json)
    IN  IF ~parsed.ok
        THEN [state |-> NoCube, error |-> <<"SyntaxError">>]
        ELSE IF ~validateCubeState(parsed.value).valid
        THEN [state |-> NoCube, error |-> InvalidStateError(parsed.value)]
        ELSE [state |-> parsed.value, error |-> NoError]

\* json = cube.toJSON()
ToJSON ==
    /\ pc = "idle"
    /\ ext.origin # "toJSON"
    /\ ext' = [origin |-> "toJSON", face |-> "", value |-> toJSON(state),
               shared |-> FALSE, writes |-> 0]
    /\ lastCall' = Called("toJSON", NoError)
    /\ UNCHANGED <<inputVars, state, initial, applied, threw, solverVars, mutations>>

\* cube2 = RubiksCube.fromJSON(json): the caller then holds cube2's state
FromJSON ==
    /\ pc = "idle"
    /\ ext.origin = "toJSON"
    /\ \E r \in {fromJSON(ext.value)} :
          /\ ext' = [origin |-> "fromJSON", face |-> "", value |-> r.state,
                     shared |-> FALSE, writes |-> 0]
          /\ lastCall' = Called("fromJSON", r.error)
    /\ UNCHANGED <<inputVars, state, initial, applied, threw, solverVars, mutations>>

NextHandle ==
    \/ ConstructDefault
    \/ Construct
    \/ ToJSON
    \/ FromJSON
    \/ \E m \in HandleMoves : ApplyMove(m)
    \/ SetStateOfCaller
    \/ Reset
    \/ GetState
    \/ \E face \in FaceCopies : GetFace(face)
    \/ \E site \in WriteSites : \E color \in WriteColors :
          WriteSticker(site[1], site[2], color)
    \/ \E index \in {0, 4} : \E color \in WriteColors :
          WriteFaceCopy(index, color)

SpecHandle == InitHandle /\ [][NextHandle]_vars

\* ------------------------------------------- moves.ts: notation
\* A string is modelled as the sequence of its characters.
\* the characters matched by \s among those the scramble field receives
WhiteSpace == {" ", "\t"}

\* String.prototype.trim
RECURSIVE trim(_)
trim(t) ==
    IF t # << >> /\ Head(t) \in WhiteSpace THEN trim(Tail(t))
    ELSE IF t # << >> /\ t[Len(t)] \in WhiteSpace
    THEN trim(SubSeq(t, 1, Len(t) - 1))
    ELSE t

\* t.split(/\s+/) from position i on, cur being the piece read so far and
\* out the pieces before it
RECURSIVE splitFrom(_, _, _, _)
splitFrom(t, i, cur, out) ==
    IF i > Len(t) THEN Append(out, cur)
    ELSE IF t[i] \notin WhiteSpace THEN splitFrom(t, i + 1, Append(cur, t[i]), out)
    ELSE IF i > 1 /\ t[i - 1] \in WhiteSpace THEN splitFrom(t, i + 1, cur, out)
    ELSE splitFrom(t, i + 1, << >>, Append(out, cur))

split(t) == splitFrom(t, 1, << >>, << >>)

\* the string with the characters cs
RECURSIVE Join(_)
Join(cs) == IF cs = << >> THEN "" ELSE Head(cs) \o Join(Tail(cs))

\* isValidMove with the character class of the suffix lacking the 2
isValidMove_noDouble(move) ==
    /\ Len(move) \in {1, 2}
    /\ move[1] \in {"U", "D", "L", "R", "F", "B"}
    /\ Len(move) = 2 => move[2] \in {"'"}

\* /^[UDLRFB]['2]?$/.test(move)
isValidMove(move) ==
    /\ Len(move) \in {1, 2}
    /\ move[1] \in {"U", "D", "L", "R", "F", "B"}
    /\ Len(move) = 2 => move[2] \in {"'", "2"}

\* new Error(`Invalid move: "${m}". Must be one of ...`)
InvalidMoveError(m) == <<"Invalid move", Join(m)>>

\* parseNotation reporting the last token that is not a move
parseNotation_lastInvalid(notation) ==
    LET tokens == SelectSeq(split(trim(notation)), LAMBDA m : Len(m) > 0)
        bad    == {k \in 1..Len(tokens) : ~isValidMove(tokens[k])}
    IN  IF bad = {}
        THEN [threw |-> FALSE, error |-> NoError,
              moves |-> [k \in 1..Len(tokens) |-> Join(tokens[k])]]
        ELSE [threw |-> TRUE, moves |-> << >>,
              error |-> InvalidMoveError(
                           tokens[CHOOSE k \in bad : \A j \in bad : k >= j])]

\* parseNotation: the moves returned, or the error the map callback throws
\* at the first token that is not a move
parseNotation(notation) ==
    LET tokens == SelectSeq(split(trim(notation)), LAMBDA m : Len(m) > 0)
        bad    == {k \in 1..Len(tokens) : ~isValidMove(tokens[k])}
    IN  IF bad = {}
        THEN [threw |-> FALSE, error |-> NoError,
              moves |-> [k \in 1..Len(tokens) |-> Join(tokens[k])]]
        ELSE [threw |-> TRUE, moves |-> << >>,
              error |-> InvalidMoveError(
                           tokens[CHOOSE k \in bad : \A j \in bad : k <= j])]

\* ------------------------------------------- ScrambleInput.tsx
\* the characters typed into the scramble field
Alphabet == {"R", "U", "X", "r", "3", "'", "2"} \cup WhiteSpace

MaxText == 4

\* the example button "R U R' U'"
Examples == {<<"R", " ", "U", " ", "R", "'", " ", "U", "'">>}

\* the error caught when applyMoves(cube, moves) throws on a solved cube
RECURSIVE ApplyError(_, _)
ApplyError(s, ms) ==
    IF applyMove(s, Head(ms)).threw
    THEN InvalidStateError(rotatedState(s, Head(ms)))
    ELSE ApplyError(applyMove(s, Head(ms)).state, Tail(ms))

\* handleScrambleChange(value)
HandleScrambleChange(value) ==
    /\ scramble' = value
    /\ IF trim(value) = << >>
       THEN /\ scrambleError' = NoError
            /\ cubeState' = getState(getSolvedState).value
       ELSE \E parsed \in {parseNotation(value)} :
              IF parsed.threw
              THEN /\ scrambleError' = parsed.error
                   /\ UNCHANGED cubeState
              ELSE \E r \in {applyMoves(getSolvedState, parsed.moves)} :
                     IF r.threw
                     THEN /\ scrambleError' = ApplyError(getSolvedState, parsed.moves)
                          /\ UNCHANGED cubeState
                     ELSE /\ scrambleError' = NoError
                          /\ cubeState' = getState(r.state).value
    /\ UNCHANGED <<state, initial, applied, threw, solverVars, callerVars, home>>

\* the user types one more character
TypeChar(c) ==
    /\ Len(scramble) < MaxText
    /\ HandleScrambleChange(Append(scramble, c))

\* the user deletes the last character
DeleteChar ==
    /\ scramble # << >>
    /\ HandleScrambleChange(SubSeq(scramble, 1, Len(scramble) - 1))

\* the user clicks an example button
ClickExample(example) ==
    /\ scramble # example
    /\ HandleScrambleChange(example)

InitInput ==
    /\ state = getSolvedState
    /\ initial = state
    /\ applied = << >>
    /\ threw = FALSE
    /\ SolverIdle
    /\ CallerIdle
    /\ InputIdle

NextInput ==
    \/ \E c \in Alphabet : TypeChar(c)
    \/ DeleteChar
    \/ \E example \in Examples : ClickExample(example)

SpecInput == InitInput /\ [][NextInput]_vars

\* ================================================================
\* algorithms/beginner.ts
\* ================================================================

\* iteration caps of the stage loops
WhiteCrossCap == 50

WhiteCornersCap == 50

MiddleLayerCap == 100

YellowCrossCap == 10

PositionYellowCrossCap == 10

PositionYellowCornersCap == 10

OrientYellowCornersCap == 50

\* RubiksCube.clone: new RubiksCube(this.getState())
\* clone returning the handle it is called on
clone_returnsThis(s) == [handle |-> "cube", state |-> s]

\* new RubiksCube(this.getState()): another handle with a copy of the state
clone(s) == [handle |-> "clone", state |-> s]

\* solveWhiteCross: edges (colors, sideFace)
WhiteCrossEdges ==
    << [colors |-> <<"W", "G">>, sideFace |-> "F"],
       [colors |-> <<"W", "R">>, sideFace |-> "R"],
       [colors |-> <<"W", "B">>, sideFace |-> "B"],
       [colors |-> <<"W", "O">>, sideFace |-> "L"] >>

\* edgePositions / bottomPositions: DF, DR, DB, DL
BottomEdgePositions ==
    << [dIdx |-> 1, sideFace |-> "F", sideIdx |-> 7],
       [dIdx |-> 5, sideFace |-> "R", sideIdx |-> 7],
       [dIdx |-> 7, sideFace |-> "B", sideIdx |-> 7],
       [dIdx |-> 3, sideFace |-> "L", sideIdx |-> 7] >>

isWhiteEdgeSolved(s, color1, color2) ==
    \E k \in 1..4 :
        LET pos == BottomEdgePositions[k]
            dColor == At(s, "D", pos.dIdx)
            sideColor == At(s, pos.sideFace, pos.sideIdx)
            centerColor == At(s, pos.sideFace, 4)
        IN  /\ \/ dColor = color1 /\ sideColor = color2 /\ centerColor = color2
               \/ dColor = color2 /\ sideColor = color1 /\ centerColor = color1
            /\ dColor = "W"

solveOneWhiteEdge(s, color1, color2) ==
    LET found(k) ==
            LET pos == BottomEdgePositions[k]
                c1 == At(s, "D", pos.dIdx)
                c2 == At(s, pos.sideFace, pos.sideIdx)
            IN  (c1 = color1 /\ c2 = color2) \/ (c1 = color2 /\ c2 = color1)
        hits == {k \in 1..4 : found(k)}
    IN  IF hits # {}
        THEN LET first == CHOOSE k \in hits : \A j \in hits : k <= j
             IN  << MkMove(BottomEdgePositions[first].sideFace, "2") >>
        ELSE << "U" >>

\* solveWhiteCorners: corners
WhiteCorners ==
    << <<"W", "G", "R">>, <<"W", "R", "B">>, <<"W", "B", "O">>, <<"W", "O", "G">> >>

isWhiteCornerSolved(s, c1, c2, c3) ==
    LET corners ==
            << <<At(s, "D", 2), At(s, "F", 6), At(s, "R", 8)>>,
               <<At(s, "D", 8), At(s, "R", 6), At(s, "B", 8)>>,
               <<At(s, "D", 6), At(s, "B", 6), At(s, "L", 8)>>,
               <<At(s, "D", 0), At(s, "L", 6), At(s, "F", 8)>> >>
        includes(corner, c) == \E j \in 1..3 : corner[j] = c
        hits == {k \in 1..4 : /\ includes(corners[k], c1)
                              /\ includes(corners[k], c2)
                              /\ includes(corners[k], c3)}
    IN  IF hits # {}
        THEN LET first == CHOOSE k \in hits : \A j \in hits : k <= j
             IN  corners[first][1] = "W"
        ELSE FALSE

\* parseNotation("R U R' U'")
solveOneWhiteCorner == <<"R", "U", "R'", "U'">>

\* parseNotation("U R U' R' U' F' U F")
rightAlg == <<"U", "R", "U'", "R'", "U'", "F'", "U", "F">>

isMiddleLayerSolved(s) ==
    /\ At(s, "F", 3) = "G" /\ At(s, "L", 5) = "O"
    /\ At(s, "F", 5) = "G" /\ At(s, "R", 3) = "R"
    /\ At(s, "R", 5) = "R" /\ At(s, "B", 3) = "B"
    /\ At(s, "B", 5) = "B" /\ At(s, "L", 3) = "O"

\* parseNotation("F R U R' U' F'")
yellowCrossAlg == <<"F", "R", "U", "R'", "U'", "F'">>

hasYellowCross(s) ==
    /\ At(s, "U", 1) = "Y"
    /\ At(s, "U", 3) = "Y"
    /\ At(s, "U", 5) = "Y"
    /\ At(s, "U", 7) = "Y"

\* parseNotation("R U R' U R U2 R'")
positionCrossAlg == <<"R", "U", "R'", "U", "R", "U2", "R'">>

isYellowCrossPositioned(s) ==
    /\ At(s, "F", 1) = "G"
    /\ At(s, "R", 1) = "R"
    /\ At(s, "B", 1) = "B"
    /\ At(s, "L", 1) = "O"

\* parseNotation("U R U' L' U R' U' L")
positionCornersAlg == <<"U", "R", "U'", "L'", "U", "R'", "U'", "L">>

areYellowCornersPositioned(s) ==
    \A i \in {0, 2, 6, 8} : At(s, "U", i) = "Y"

\* parseNotation("R' D' R D")
orientCornersAlg == <<"R'", "D'", "R", "D">>

\* the SolutionStep a stage returns
SolutionStep(name, description, ms) ==
    [name |-> name, description |-> description, moves |-> ms, moveCount |-> Len(ms)]

\* steps.flatMap(step => step.moves)
RECURSIVE flatMoves(_)
flatMoves(ss) ==
    IF ss = << >> THEN << >> ELSE Head(ss).moves \o flatMoves(Tail(ss))

\* applyMoves(cube, ms) inside a stage: the clone's state afterwards; an
\* exception leaves solve
StageApply(ms, nextPc) ==
    LET r == applyMoves(workingCube, ms)
    IN  /\ workingCube' = r.state
        /\ state' = IF workingHandle = "cube" THEN r.state ELSE state
        /\ pc' = IF r.threw THEN "threw" ELSE nextPc

\* solve, already solved branch
SolveSolved ==
    /\ pc = "solve"
    /\ isSolved(state)
    /\ solution' = [moves |-> << >>, steps |-> << >>, totalMoves |-> 0,
                    method |-> "Beginner's Method", optimized |-> FALSE]
    /\ pc' = "done"
    /\ UNCHANGED <<frameVars, state, initial, applied, threw, workingCube, steps, moves,
                   iterations, idx>>

\* solve: clone the input and enter solveWhiteCross
SolveBegin ==
    /\ pc = "solve"
    /\ ~isSolved(state)
    /\ steps' = << >>
    /\ workingCube' = clone(state).state
    /\ workingHandle' = clone(state).handle
    /\ moves' = << >>
    /\ idx' = 1
    /\ iterations' = 0
    /\ pc' = "WhiteCross"
    /\ UNCHANGED <<inputVars, callerVars, state, initial, applied, threw, solution>>

WhiteCrossLoop ==
    /\ ~isWhiteEdgeSolved(workingCube, WhiteCrossEdges[idx].colors[1],
                          WhiteCrossEdges[idx].colors[2])
    /\ iterations < WhiteCrossCap

\* one iteration of the while loop of solveWhiteCross
WhiteCrossIter ==
    /\ pc = "WhiteCross"
    /\ idx <= 4
    /\ WhiteCrossLoop
    /\ LET edgeMoves == solveOneWhiteEdge(workingCube, WhiteCrossEdges[idx].colors[1],
                                          WhiteCrossEdges[idx].colors[2])
       IN  /\ moves' = moves \o edgeMoves
           /\ StageApply(edgeMoves, "WhiteCross")
    /\ iterations' = iterations + 1
    /\ UNCHANGED <<frameVars, initial, applied, threw, steps, idx, solution>>

\* the while loop of one edge ends; the for loop goes to the next edge
WhiteCrossNextEdge ==
    /\ pc = "WhiteCross"
    /\ idx <= 4
    /\ ~WhiteCrossLoop
    /\ idx' = idx + 1
    /\ iterations' = 0
    /\ UNCHANGED <<frameVars, state, initial, applied, threw, pc, workingCube, steps, moves,
                   solution>>

\* solveWhiteCross returns; solveWhiteCorners starts
WhiteCrossReturn ==
    /\ pc = "WhiteCross"
    /\ idx = 5
    /\ steps' = Append(steps, SolutionStep("White Cross",
          "Form a cross on the white (bottom) face with correct edge alignment", moves))
    /\ moves' = << >>
    /\ idx' = 1
    /\ iterations' = 0
    /\ pc' = "WhiteCorners"
    /\ UNCHANGED <<frameVars, state, initial, applied, threw, workingCube, solution>>

WhiteCornersLoop ==
    /\ ~isWhiteCornerSolved(workingCube, WhiteCorners[idx][1], WhiteCorners[idx][2],
                            WhiteCorners[idx][3])
    /\ iterations < WhiteCornersCap

WhiteCornersIter ==
    /\ pc = "WhiteCorners"
    /\ idx <= 4
    /\ WhiteCornersLoop
    /\ moves' = moves \o solveOneWhiteCorner
    /\ StageApply(solveOneWhiteCorner, "WhiteCorners")
    /\ iterations' = iterations + 1
    /\ UNCHANGED <<frameVars, initial, applied, threw, steps, idx, solution>>

WhiteCornersNextCorner ==
    /\ pc = "WhiteCorners"
    /\ idx <= 4
    /\ ~WhiteCornersLoop
    /\ idx' = idx + 1
    /\ iterations' = 0
    /\ UNCHANGED <<frameVars, state, initial, applied, threw, pc, workingCube, steps, moves,
                   solution>>

WhiteCornersReturn ==
    /\ pc = "WhiteCorners"
    /\ idx = 5
    /\ steps' = Append(steps, SolutionStep("White Corners",
          "Position and orient white corner pieces to complete the first layer", moves))
    /\ moves' = << >>
    /\ idx' = 0
    /\ iterations' = 0
    /\ pc' = "MiddleLayer"
    /\ UNCHANGED <<frameVars, state, initial, applied, threw, workingCube, solution>>

\* the while loop of solveMiddleLayer testing iterations <= 100
MiddleLayerIter_capOffByOne ==
    /\ pc = "MiddleLayer"
    /\ ~isMiddleLayerSolved(workingCube) /\ iterations <= MiddleLayerCap
    /\ moves' = moves \o rightAlg
    /\ StageApply(rightAlg, "MiddleLayer")
    /\ iterations' = iterations + 1
    /\ UNCHANGED <<frameVars, initial, applied, threw, steps, idx, solution>>

MiddleLayerIter ==
    /\ pc = "MiddleLayer"
    /\ ~isMiddleLayerSolved(workingCube) /\ iterations < MiddleLayerCap
    /\ moves' = moves \o rightAlg
    /\ StageApply(rightAlg, "MiddleLayer")
    /\ iterations' = iterations + 1
    /\ UNCHANGED <<frameVars, initial, applied, threw, steps, idx, solution>>

MiddleLayerReturn ==
    /\ pc = "MiddleLayer"
    /\ ~(~isMiddleLayerSolved(workingCube) /\ iterations < MiddleLayerCap)
    /\ steps' = Append(steps, SolutionStep("Middle Layer",
          "Position middle layer edge pieces", moves))
    /\ moves' = << >>
    /\ iterations' = 0
    /\ pc' = "YellowCross"
    /\ UNCHANGED <<frameVars, state, initial, applied, threw, workingCube, idx, solution>>

YellowCrossIter ==
    /\ pc = "YellowCross"
    /\ ~hasYellowCross(workingCube) /\ iterations < YellowCrossCap
    /\ moves' = moves \o yellowCrossAlg
    /\ StageApply(yellowCrossAlg, "YellowCross")
    /\ iterations' = iterations + 1
    /\ UNCHANGED <<frameVars, initial, applied, threw, steps, idx, solution>>

YellowCrossReturn ==
    /\ pc = "YellowCross"
    /\ ~(~hasYellowCross(workingCube) /\ iterations < YellowCrossCap)
    /\ steps' = Append(steps, SolutionStep("Yellow Cross",
          "Form a cross on the yellow (top) face", moves))
    /\ moves' = << >>
    /\ iterations' = 0
    /\ pc' = "PositionYellowCross"
    /\ UNCHANGED <<frameVars, state, initial, applied, threw, workingCube, idx, solution>>

\* the algorithm, then moves.push('U'); applyMoves(cube, ['U'])
PositionYellowCrossIter ==
    /\ pc = "PositionYellowCross"
    /\ ~isYellowCrossPositioned(workingCube) /\ iterations < PositionYellowCrossCap
    /\ moves' = (moves \o positionCrossAlg) \o <<"U">>
    /\ StageApply(positionCrossAlg \o <<"U">>, "PositionYellowCross")
    /\ iterations' = iterations + 1
    /\ UNCHANGED <<frameVars, initial, applied, threw, steps, idx, solution>>

PositionYellowCrossReturn ==
    /\ pc = "PositionYellowCross"
    /\ ~(~isYellowCrossPositioned(workingCube) /\ iterations < PositionYellowCrossCap)
    /\ steps' = Append(steps, SolutionStep("Position Yellow Cross",
          "Align yellow cross edges with center colors", moves))
    /\ moves' = << >>
    /\ iterations' = 0
    /\ pc' = "PositionYellowCorners"
    /\ UNCHANGED <<frameVars, state, initial, applied, threw, workingCube, idx, solution>>

PositionYellowCornersIter ==
    /\ pc = "PositionYellowCorners"
    /\ ~areYellowCornersPositioned(workingCube) /\ iterations < PositionYellowCornersCap
    /\ moves' = moves \o positionCornersAlg
    /\ StageApply(positionCornersAlg, "PositionYellowCorners")
    /\ iterations' = iterations + 1
    /\ UNCHANGED <<frameVars, initial, applied, threw, steps, idx, solution>>

PositionYellowCornersReturn ==
    /\ pc = "PositionYellowCorners"
    /\ ~(~areYellowCornersPositioned(workingCube) /\ iterations < PositionYellowCornersCap)
    /\ steps' = Append(steps, SolutionStep("Position Yellow Corners",
          "Move yellow corners to correct positions", moves))
    /\ moves' = << >>
    /\ iterations' = 0
    /\ pc' = "OrientYellowCorners"
    /\ UNCHANGED <<frameVars, state, initial, applied, threw, workingCube, idx, solution>>

\* the loop of orientYellowCorners without the U between two corners
OrientYellowCornersIter_noTurn ==
    /\ pc = "OrientYellowCorners"
    /\ ~isSolved(workingCube) /\ iterations < OrientYellowCornersCap
    /\ moves' = moves \o orientCornersAlg
    /\ StageApply(orientCornersAlg, "OrientYellowCorners")
    /\ iterations' = iterations + 1
    /\ UNCHANGED <<frameVars, initial, applied, threw, steps, idx, solution>>

\* the algorithm, then a U unless the cube is solved
OrientYellowCornersIter ==
    /\ pc = "OrientYellowCorners"
    /\ ~isSolved(workingCube) /\ iterations < OrientYellowCornersCap
    /\ LET r == applyMoves(workingCube, orientCornersAlg)
           extra == IF ~r.threw /\ ~isSolved(r.state) THEN <<"U">> ELSE << >>
       IN  /\ moves' = (moves \o orientCornersAlg) \o extra
           /\ StageApply(orientCornersAlg \o extra, "OrientYellowCorners")
    /\ iterations' = iterations + 1
    /\ UNCHANGED <<frameVars, initial, applied, threw, steps, idx, solution>>

OrientYellowCornersReturn ==
    /\ pc = "OrientYellowCorners"
    /\ ~(~isSolved(workingCube) /\ iterations < OrientYellowCornersCap)
    /\ steps' = Append(steps, SolutionStep("Orient Yellow Corners",
          "Rotate yellow corners to solve the cube", moves))
    /\ moves' = << >>
    /\ iterations' = 0
    /\ pc' = "combine"
    /\ UNCHANGED <<frameVars, state, initial, applied, threw, workingCube, idx, solution>>

\* solve returning every step, also those without moves
SolveReturn_noFilter ==
    /\ pc = "combine"
    /\ LET allMoves == flatMoves(steps)
       IN  solution' = [moves |-> allMoves,
                        steps |-> steps,
                        totalMoves |-> Len(allMoves),
                        method |-> "Beginner's Method",
                        optimized |-> FALSE]
    /\ pc' = "done"
    /\ UNCHANGED <<frameVars, state, initial, applied, threw, workingCube, steps, moves,
                   iterations, idx>>

\* solve: combine all moves and return the Solution
SolveReturn ==
    /\ pc = "combine"
    /\ LET allMoves == flatMoves(steps)
       IN  solution' = [moves |-> allMoves,
                        steps |-> SelectSeq(steps, LAMBDA step : Len(step.moves) > 0),
                        totalMoves |-> Len(allMoves),
                        method |-> "Beginner's Method",
                        optimized |-> FALSE]
    /\ pc' = "done"
    /\ UNCHANGED <<frameVars, state, initial, applied, threw, workingCube, steps, moves,
                   iterations, idx>>

\* scrambles of the end-to-end tests
TestScrambles ==
    { <<"R", "U">>,
      <<"F", "R", "U">>,
      <<"R", "U", "R'", "U'">>,
      <<"R", "U", "R'", "U'", "R'", "F", "R2", "U'", "R'", "U'", "R", "U", "R'", "F'">> }

Scrambles == {<< >>} \cup {<<m>> : m \in Moves} \cup TestScrambles

\* a fresh cube, applyMoves(cube, scramble), then solver.solve(cube)
InitSolve ==
    /\ applied \in Scrambles
    /\ initial = getSolvedState
    /\ state = applyMoves(getSolvedState, applied).state
    /\ threw = FALSE
    /\ pc = "solve"
    /\ workingCube = NoCube
    /\ steps = << >>
    /\ moves = << >>
    /\ iterations = 0
    /\ idx = 0
    /\ solution = NoSolution
    /\ workingHandle = "none"
    /\ CallerIdle
    /\ InputIdle

NextSolve ==
    \/ SolveSolved
    \/ SolveBegin
    \/ WhiteCrossIter
    \/ WhiteCrossNextEdge
    \/ WhiteCrossReturn
    \/ WhiteCornersIter
    \/ WhiteCornersNextCorner
    \/ WhiteCornersReturn
    \/ MiddleLayerIter
    \/ MiddleLayerReturn
    \/ YellowCrossIter
    \/ YellowCrossReturn
    \/ PositionYellowCrossIter
    \/ PositionYellowCrossReturn
    \/ PositionYellowCornersIter
    \/ PositionYellowCornersReturn
    \/ OrientYellowCornersIter
    \/ OrientYellowCornersReturn
    \/ SolveReturn

SpecSolve == InitSolve /\ [][NextSolve]_vars

\* where solve is: the stage, the edge or corner and the loop counter
position == <<pc, idx, iterations>>

\* solve is one synchronous call: until it returns or throws, the next
\* statement runs and takes it to another position
SolveRuns ==
    /\ pc \notin {"done", "threw"}
    /\ pc' \in {"WhiteCross", "WhiteCorners", "MiddleLayer", "YellowCross",
               "PositionYellowCross", "PositionYellowCorners",
               "OrientYellowCorners", "combine", "done", "threw"}
    /\ idx' \in 0..5
    /\ iterations' \in 0..MiddleLayerCap

SpecSolveLive == SpecSolve /\ WF_position(SolveRuns)

\* ================================================================
\* app/page.tsx (Home) and SolutionDisplay.tsx: step-by-step playback
\* ================================================================

\* solution?.steps.filter(step => step.moves.length > 0) ?? []
nonEmptySteps(sol) ==
    IF sol = NoSolution THEN << >>
    ELSE SelectSeq(sol.steps, LAMBDA step : Len(step.moves) > 0)

\* nonEmptySteps.forEach(step => { applyMoves(cube, step.moves);
\* states.push(cube.getState()) }) from step k on
RECURSIVE forEachStep(_, _, _, _)
forEachStep(cube, stepList, k, states) ==
    IF k > Len(stepList) THEN states
    ELSE LET r == applyMoves(cube, stepList[k].moves)
         IN  forEachStep(r.state, stepList, k + 1,
                         Append(states, getState(r.state).value))

\* the useMemo of intermediateStates: [initial, afterStep1, ...], or []
\* without a cube state or without steps
intermediateStates(cs, stepList) ==
    IF cs = NoCube \/ Len(stepList) = 0 THEN << >>
    ELSE forEachStep(cs, stepList, 1, <<cs>>)

\* states[i] ?? null, i a 0-based index
elementOrNull(states, i) ==
    IF i + 1 \in DOMAIN states THEN states[i + 1] ELSE NoCube

\* the useMemo of displayedCubeState
displayedCubeState ==
    LET states == intermediateStates(cubeState, nonEmptySteps(home.solution))
    IN  IF home.currentStepIndex = -1
        THEN elementOrNull(states, 0)
        ELSE elementOrNull(states, home.currentStepIndex + 1)

\* handleSolve up to the call of solver.solve: new RubiksCube(cubeState)
HandleSolve ==
    /\ pc = "idle"
    /\ cubeState # NoCube
    /\ ~home.isLoading
    /\ home' = [home EXCEPT !.isLoading = TRUE, !.error = NoError]
    /\ IF validateCubeState(cubeState).valid
       THEN /\ state' = cubeState
            /\ initial' = cubeState
            /\ pc' = "solve"
       ELSE /\ pc' = "threw"
            /\ UNCHANGED <<state, initial>>
    /\ UNCHANGED <<scramble, scrambleError, cubeState, callerVars, applied, threw,
                   workingCube, steps, moves, iterations, idx, solution,
                   workingHandle>>

\* handleSolve after solver.solve: setSolution(result) and
\* setCurrentStepIndex(-1), or the catch branch, then finally; the effect on
\* [solution] sets currentStepIndex to -1 as well
HandleSolveEnd ==
    /\ pc \in {"done", "threw"}
    /\ home.isLoading
    /\ home' = IF pc = "done"
               THEN [home EXCEPT !.solution = solution, !.currentStepIndex = -1,
                                 !.isLoading = FALSE]
               ELSE [home EXCEPT !.error = <<"Failed to solve cube">>,
                                 !.isLoading = FALSE]
    /\ state' = NoCube
    /\ initial' = NoCube
    /\ pc' = "idle"
    /\ workingCube' = NoCube
    /\ steps' = << >>
    /\ moves' = << >>
    /\ iterations' = 0
    /\ idx' = 0
    /\ solution' = NoSolution
    /\ workingHandle' = "none"
    /\ UNCHANGED <<scramble, scrambleError, cubeState, callerVars, applied, threw>>

\* handleReset
HandleReset ==
    /\ pc = "idle"
    /\ cubeState # NoCube
    /\ cubeState' = NoCube
    /\ home' = [home EXCEPT !.solution = NoSolution, !.error = NoError,
                            !.currentStepIndex = -1]
    /\ UNCHANGED <<scramble, scrambleError, state, initial, applied, threw,
                   solverVars, callerVars>>

\* the buttons of the playback controls
PlaybackButtons == {"Reset", "Previous", "Next"}

\* whether the button is disabled: Reset and Previous at the initial
\* state, Next at currentStepIndex >= nonEmptySteps.length
disabled(button) ==
    IF button = "Next"
    THEN home.currentStepIndex >= Len(nonEmptySteps(home.solution))
    ELSE home.currentStepIndex = -1

\* the index the button's onClick passes to onStepChange: -1,
\* Math.max(-1, currentStepIndex - 1),
\* Math.min(nonEmptySteps.length, currentStepIndex + 1)
target(button) ==
    CASE button = "Reset" -> -1
      [] button = "Previous" ->
             IF -1 > home.currentStepIndex - 1 THEN -1 ELSE home.currentStepIndex - 1
      [] button = "Next" ->
             IF Len(nonEmptySteps(home.solution)) < home.currentStepIndex + 1
             THEN Len(nonEmptySteps(home.solution))
             ELSE home.currentStepIndex + 1

\* a click on a button of the playback controls, which are rendered when
\* there is a solution with non-empty steps: onStepChange =
\* setCurrentStepIndex
OnStepChange(button) ==
    /\ pc = "idle"
    /\ home.solution # NoSolution
    /\ Len(nonEmptySteps(home.solution)) > 0
    /\ ~disabled(button)
    /\ home' = [home EXCEPT !.currentStepIndex = target(button)]
    /\ UNCHANGED <<scramble, scrambleError, cubeState, state, initial, applied,
                   threw, solverVars, callerVars>>

\* the user empties the scramble field
ClearScramble ==
    /\ scramble # << >>
    /\ HandleScrambleChange(<< >>)

\* the page before any input
InitPage ==
    /\ state = NoCube
    /\ initial = NoCube
    /\ applied = << >>
    /\ threw = FALSE
    /\ SolverIdle
    /\ CallerIdle
    /\ InputIdle

\* an event handler runs to its end before the next event is handled
NextPage ==
    \/ pc = "idle" /\ \E example \in Examples : ClickExample(example)
    \/ pc = "idle" /\ ClearScramble
    \/ HandleSolve
    \/ NextSolve
    \/ HandleSolveEnd
    \/ HandleReset
    \/ \E button \in PlaybackButtons : OnStepChange(button)

SpecPage == InitPage /\ [][NextPage]_vars

\* ------------------------------------------------------ helpers.ts
\* EDGE_POSITIONS: <<face1, index1, face2, index2>>
EDGE_POSITIONS ==
    {<<"U", 1, "B", 1>>, <<"U", 3, "L", 1>>, <<"U", 5, "R", 1>>, <<"U", 7, "F", 1>>,
     <<"F", 3, "L", 5>>, <<"F", 5, "R", 3>>, <<"B", 3, "R", 5>>, <<"B", 5, "L", 3>>,
     <<"D", 1, "F", 7>>, <<"D", 3, "L", 7>>, <<"D", 5, "R", 7>>, <<"D", 7, "B", 7>>}

\* ================================================================
\* Properties of the move engine (specification Spec)
\* ================================================================

\* The eight corner positions of the facelet layout (U seen from above with
\* B along its top row, D seen from below with F along its top row, side
\* faces seen from outside with U up): <<face, index>> of the three stickers.
CornerPositions ==
    {<< <<"U", 6>>, <<"F", 0>>, <<"L", 2>> >>, << <<"U", 8>>, <<"F", 2>>, <<"R", 0>> >>,
     << <<"U", 2>>, <<"R", 2>>, <<"B", 0>> >>, << <<"U", 0>>, <<"B", 2>>, <<"L", 0>> >>,
     << <<"D", 0>>, <<"F", 6>>, <<"L", 8>> >>, << <<"D", 2>>, <<"F", 8>>, <<"R", 6>> >>,
     << <<"D", 8>>, <<"R", 8>>, <<"B", 6>> >>, << <<"D", 6>>, <<"B", 8>>, <<"L", 6>> >>}

OppositeColor(c) ==
    CASE c = "W" -> "Y" [] c = "Y" -> "W" [] c = "R" -> "O"
      [] c = "O" -> "R" [] c = "G" -> "B" [] c = "B" -> "G"

\* two stickers that can belong to one cubie of the solved colour scheme
Compatible(a, b) == a # b /\ OppositeColor(a) # b

RepeatMove(m, n) == [k \in 1..n |-> m]

RepeatCounts == {5, 6, 7, 50}

LastMove == applied[Len(applied)]

\* a cube whose 54 stickers all differ: sticker i of face number k is 9k + i
LabelledCube ==
    [U |-> [i \in 1..9 |-> i],      D |-> [i \in 1..9 |-> 9 + i],
     L |-> [i \in 1..9 |-> 18 + i], R |-> [i \in 1..9 |-> 27 + i],
     F |-> [i \in 1..9 |-> 36 + i], B |-> [i \in 1..9 |-> 45 + i]]

\* C5: after any move sequence from the solved state, no edge position and
\* no corner position shows two stickers of the same colour or of
\* opposite-face colours, i.e. every face turn moves its layer as one piece.
C5_CubiesStayTogether ==
    initial = getSolvedState =>
        /\ \A e \in EDGE_POSITIONS :
              Compatible(At(state, e[1], e[2]), At(state, e[3], e[4]))
        /\ \A c \in CornerPositions :
              /\ Compatible(At(state, c[1][1], c[1][2]), At(state, c[2][1], c[2][2]))
              /\ Compatible(At(state, c[1][1], c[1][2]), At(state, c[3][1], c[3][2]))
              /\ Compatible(At(state, c[2][1], c[2][2]), At(state, c[3][1], c[3][2]))

\* C6: whenever a base move m is applied, applying m three more times
\* returns exactly the state held before the first application; four
\* rotations of a face put each of the 54 individually labelled stickers
\* back in its place; and n consecutive applications of m equal (n mod 4)
\* applications (n = 50 among them).
C6_FourTurnsRestore ==
    [][\A m \in BaseMoves :
          applied' = Append(applied, m) =>
             /\ applyMoves(state', <<m, m, m>>) = [state |-> state, threw |-> FALSE]
             /\ applied = << >> =>
                   /\ rotateFace(rotateFace(rotateFace(rotateFace(LabelledCube, m), m), m), m)
                          = LabelledCube
                   /\ \A n \in RepeatCounts :
                         applyMoves(state, RepeatMove(m, n))
                             = applyMoves(state, RepeatMove(m, n % 4))]_vars

C6_Witness ==
    /\ Len(applied) = 2
    /\ LastMove \in BaseMoves
    /\ state # initial
    /\ rotatedState(state, LastMove) # state

\* C7: whenever one of the 18 moves m is applied, applying invertMove(m)
\* next restores the state held before, and so does applying invertMove(m)
\* first and m second; invertMove swaps plain and prime and fixes X2.
C7_InverseCancels ==
    [][\A m \in Moves :
          applied' = Append(applied, m) =>
             /\ applyMove(state', invertMove(m)) = [state |-> state, threw |-> FALSE]
             /\ applyMoves(state, <<invertMove(m), m>>)
                    = [state |-> state, threw |-> FALSE]
             /\ BaseOf(invertMove(m)) = BaseOf(m)
             /\ ModifierOf(invertMove(m)) =
                   (CASE ModifierOf(m) = "" -> "'"
                      [] ModifierOf(m) = "'" -> ""
                      [] ModifierOf(m) = "2" -> "2")]_vars

C7_Witness ==
    /\ Len(applied) = 2
    /\ ModifierOf(LastMove) = "2"
    /\ ModifierOf(applied[1]) = "'"
    /\ state # initial

\* C8: applying invertMoves(s) after the sequence s restores the state held
\* before s (the empty s included), and invertMoves(invertMoves(s)) = s.
C8_InverseSequenceRestores ==
    /\ applyMoves(state, invertMoves(applied)) = [state |-> initial, threw |-> FALSE]
    /\ invertMoves(invertMoves(applied)) = applied

C8_Witness ==
    /\ Len(applied) = 2
    /\ BaseOf(applied[1]) # BaseOf(applied[2])
    /\ rotatedState(rotatedState(state, invertMove(applied[1])), invertMove(applied[2]))
          # initial
    /\ state # initial

\* C9: the centre sticker (index 4) of each face keeps the value it had at
\* the start, after every single move.
C9_CentersFixed ==
    \A f \in FaceSet : At(state, f, 4) = At(initial, f, 4)

C9_Witness ==
    /\ Len(applied) = 2
    /\ initial = stripedState
    /\ \A f \in FaceSet : state[f] # initial[f]

\* C10: every state reached by applyMove calls from a valid state is valid
\* (nine stickers of each colour, six distinct centres) and no applyMove
\* has raised.
C10_StaysValid ==
    /\ ~threw
    /\ validateCubeState(state).valid
    /\ \A c \in ColorSet : ColorCount(state, c) = 9
    /\ \A f, g \in FaceSet : f # g => At(state, f, 4) # At(state, g, 4)

C10_Witness ==
    /\ Len(applied) = 2
    /\ initial = scrambledState
    /\ ~threw
    /\ state # initial

\* ================================================================
\* Properties of the solver (specification SpecSolve)
\* ================================================================

\* the cube the end-to-end tests check: a fresh cube, the scramble, then
\* solution.moves
Replayed == applyMoves(applyMoves(getSolvedState, applied).state, solution.moves).state

\* C1: for every scrambled state, applying solve(cube).moves in order to it
\* yields a solved cube.
C1_SolutionSolves ==
    pc = "done" => isSolved(applyMoves(state, solution.moves).state)

\* C2: for the scramble R, solve returns totalMoves > 0 and the scramble
\* followed by solution.moves on a fresh cube gives a solved cube.
C2_SingleMoveScramble ==
    (pc = "done" /\ applied = <<"R">>) =>
        /\ solution.totalMoves > 0
        /\ isSolved(Replayed)

\* C3: for the scramble R U R' U', totalMoves is strictly between 0 and 500.
C3_ReasonableMoveCount ==
    (pc = "done" /\ applied = <<"R", "U", "R'", "U'">>) =>
        /\ solution.totalMoves > 0
        /\ solution.totalMoves < 500

\* C4: on an already solved input, solve runs no stage and returns
\* moves = [], steps = [], totalMoves = 0, method "Beginner's Method",
\* optimized false.
C4_SolvedInputEmptySolution ==
    state = getSolvedState =>
        /\ pc \in {"solve", "done"}
        /\ steps = << >> /\ moves = << >> /\ iterations = 0 /\ idx = 0
        /\ pc = "done" =>
              solution = [moves |-> << >>, steps |-> << >>, totalMoves |-> 0,
                          method |-> "Beginner's Method", optimized |-> FALSE]

C4_Witness ==
    /\ pc = "done"
    /\ state = getSolvedState
    /\ solution.totalMoves = 0

\* ================================================================
\* claims about applyMove's modifiers and the U turn
\* ================================================================

\* C11: for every face X, applyMove with X2 leaves the handle in the state
\* that applying X twice gives, and applyMove with X' in the state that
\* applying X three times gives.
C11_DoubleAndPrime ==
    [][\A m \in BaseMoves :
          /\ applied' = Append(applied, MkMove(m, "2")) =>
                [state |-> state', threw |-> threw'] = applyMoves(state, <<m, m>>)
          /\ applied' = Append(applied, MkMove(m, "'")) =>
                [state |-> state', threw |-> threw']
                    = applyMoves(state, <<m, m, m>>)]_vars

C11_Witness ==
    /\ Len(applied) = 2
    /\ ModifierOf(applied[1]) = "2"
    /\ ModifierOf(applied[2]) = "'"
    /\ BaseOf(applied[1]) # BaseOf(applied[2])
    /\ ~threw
    /\ state # initial

\* C12: a U move cycles the top rows (indices 0,1,2) of the side faces
\* Front -> Right -> Back -> Left -> Front, index for index.
C12_UCyclesTopRows ==
    [][applied' = Append(applied, "U") =>
          /\ ~threw'
          /\ \A i \in 0..2 :
                /\ At(state', "R", i) = At(state, "F", i)
                /\ At(state', "B", i) = At(state, "R", i)
                /\ At(state', "L", i) = At(state, "B", i)
                /\ At(state', "F", i) = At(state, "L", i)]_vars

C12_Witness ==
    /\ Len(applied) = 2
    /\ LastMove = "U"
    /\ applied[1] = "R"
    /\ At(state, "R", 0) # At(state, "R", 2)
    /\ At(state, "R", 0) # At(state, "B", 0)

\* ================================================================
\* claims about the handle and its caller
\* ================================================================

\* C13: after any sequence of handle operations, a write to a value that
\* getState() or getFace() returned never changes the state the handle
\* holds: a later getState() returns the same stickers as before the write.
C13_ReturnedCopyIndependent ==
    [][(mutations' = mutations + 1 /\ ext.origin \in {"getState", "getFace"}) =>
          /\ ext'.value # ext.value
          /\ getState(state').value = getState(state).value]_vars

C13_Witness ==
    /\ lastCall.op = "getState"
    /\ ext.origin = "getState"
    /\ ext.writes > 0
    /\ applied # << >>
    /\ state # getSolvedState
    /\ ext.value # state

\* C14: constructing a handle from a state that fails validation, or
\* calling setState with one, raises an error that carries the validator's
\* error list, and a failed setState leaves the handle's state as it was.
C14_InvalidStateRaises ==
    [][(/\ mutations' = mutations
        /\ lastCall'.op \in {"constructor", "setState"}
        /\ ext.origin # "none"
        /\ ~validateCubeState(ext.value).valid) =>
          /\ threw'
          /\ lastCall'.error
                 = <<"Invalid cube state", validateCubeState(ext.value).errors>>
          /\ lastCall'.error[2] # << >>
          /\ state' = state
          /\ lastCall'.op = "constructor" => pc' = "failed"]_vars

C14_Witness ==
    /\ lastCall.op = "setState"
    /\ threw
    /\ Len(lastCall.error[2]) >= 2
    /\ ext.origin = "getState"
    /\ state # getSolvedState
    /\ state # ext.value

\* ================================================================
\* claims about what solve returns and leaves alone
\* ================================================================

\* C15: solve never changes the state of the cube passed to it; every
\* stage applies its moves to a private clone.
C15_SolveKeepsInput ==
    [][/\ state' = state
       /\ workingHandle' # "cube"]_vars

C15_Witness ==
    /\ pc = "done"
    /\ solution.totalMoves > 0
    /\ workingCube # state
    /\ ~isSolved(state)

\* the names of the seven stages, in the order solve runs them
StageOrder ==
    <<"White Cross", "White Corners", "Middle Layer", "Yellow Cross",
      "Position Yellow Cross", "Position Yellow Corners",
      "Orient Yellow Corners">>

StageIndex(name) == CHOOSE k \in 1..Len(StageOrder) : StageOrder[k] = name

\* the number of moves in the first k steps of ss
RECURSIVE MovesBefore(_, _)
MovesBefore(ss, k) ==
    IF k = 0 THEN 0 ELSE MovesBefore(ss, k - 1) + Len(ss[k].moves)

\* C16: the Solution solve returns is internally consistent: totalMoves is
\* the length of moves; moves is the in-order concatenation of the moves of
\* the returned steps; every returned step has at least one move and
\* moveCount equal to the length of its moves; the returned steps are in
\* the fixed stage order; optimized is false.
C16_SolutionConsistent ==
    pc = "done" =>
        LET ss == solution.steps
        IN  /\ solution.totalMoves = Len(solution.moves)
            /\ Len(solution.moves) = MovesBefore(ss, Len(ss))
            /\ \A k \in 1..Len(ss) :
                  /\ SubSeq(solution.moves, MovesBefore(ss, k - 1) + 1,
                            MovesBefore(ss, k)) = ss[k].moves
                  /\ Len(ss[k].moves) >= 1
                  /\ ss[k].moveCount = Len(ss[k].moves)
                  /\ ss[k].name \in {StageOrder[n] : n \in 1..Len(StageOrder)}
                  /\ k > 1 => StageIndex(ss[k - 1].name) < StageIndex(ss[k].name)
            /\ solution.optimized = FALSE

C16_Witness ==
    /\ pc = "done"
    /\ Len(solution.steps) \in 2..6
    /\ Len(steps) = 7
    /\ solution.totalMoves > 0

\* ================================================================
\* claims about validateCubeState
\* ================================================================

\* the objects validateCubeState is given once the constructor has run: the
\* caller's state object (constructor, setState) and, through applyMove and
\* an object shared with the caller, this.state
ValidatedObjects ==
    (IF pc # "new" /\ ext.origin \in {"supplied", "getState"}
     THEN {ext.value} ELSE {})
        \cup (IF pc = "idle" THEN {state} ELSE {})

Complete(v) == \A f \in FaceSet : f \in DOMAIN v /\ Len(v[f]) = 9

StickerCount(v, c) ==
    Cardinality({p \in FaceSet \X (1..9) : v[p[1]][p[2]] = c})

\* C17: validate(state).valid is true iff the error list is empty, and
\* this holds exactly when all six faces are present with nine stickers
\* each, each of W,Y,R,O,B,G appears exactly nine times, and the six
\* centre stickers are pairwise distinct.
C17_ValidIffWellFormed ==
    \A v \in ValidatedObjects :
        LET result == validateCubeState(v)
        IN  /\ result.valid <=> result.errors = << >>
            /\ result.valid <=>
                  /\ Complete(v)
                  /\ \A c \in ColorSet : StickerCount(v, c) = 9
                  /\ \A f, g \in FaceSet : f # g => v[f][5] # v[g][5]

C17_Witness ==
    /\ pc = "failed"
    /\ lastCall = Called("constructor", InvalidStateError(ext.value))
    /\ Complete(ext.value)
    /\ \A c \in ColorSet : StickerCount(ext.value, c) = 9
    /\ ext.value["U"][5] = ext.value["D"][5]

\* C18: when a face is missing or has a length other than nine, validate
\* returns valid = false with exactly one error, the incomplete error,
\* whatever the other stickers are.
C18_IncompleteOnly ==
    \A v \in ValidatedObjects :
        ~Complete(v) =>
            validateCubeState(v)
                = [valid |-> FALSE,
                   errors |-> << <<"Cube state is incomplete - missing stickers">> >>]

C18_Witness ==
    /\ lastCall.op = "constructor"
    /\ lastCall.error # NoError
    /\ Len(lastCall.error[2]) = 1
    /\ "L" \in DOMAIN ext.value
    /\ Len(ext.value["L"]) = 10
    /\ ext.writes = 1
    /\ ext.value["U"][5] = ext.value["D"][5]

\* C19: for every complete state, validate reports exactly one error
\* "Color X appears N times (expected 9)" for each colour X whose count N
\* over the 54 stickers is not nine, and none for a colour whose count is
\* nine; the state with ten W and eight Y gets one error for W (10) and one
\* for Y (8) and no other.
C19_OneErrorPerMiscountedColor ==
    \A v \in ValidatedObjects :
        Complete(v) =>
            LET errs == validateCubeState(v).errors
                hits(c) == {k \in 1..Len(errs) :
                              Len(errs[k]) = 3 /\ errs[k][1] = "Color" /\ errs[k][2] = c}
            IN  /\ \A c \in ColorSet :
                      IF StickerCount(v, c) # 9
                      THEN /\ Cardinality(hits(c)) = 1
                           /\ \A k \in hits(c) : errs[k][3] = StickerCount(v, c)
                      ELSE hits(c) = {}
                /\ v = tooManyWhite =>
                      errs = << <<"Color", "W", 10>>, <<"Color", "Y", 8>> >>

C19_Witness ==
    /\ pc = "failed"
    /\ ext.value = tooManyWhite
    /\ lastCall.error[2] = << <<"Color", "W", 10>>, <<"Color", "Y", 8>> >>

\* ================================================================
\* claims about parseNotation
\* ================================================================

\* the positions where a maximal run of non-whitespace characters starts
TokenStarts(t) ==
    {i \in 1..Len(t) : t[i] \notin WhiteSpace /\ (i = 1 \/ t[i - 1] \in WhiteSpace)}

\* the position where the run starting at i ends
TokenEnd(t, i) ==
    CHOOSE j \in i..Len(t) :
        /\ \A k \in i..j : t[k] \notin WhiteSpace
        /\ j = Len(t) \/ t[j + 1] \in WhiteSpace

\* the whitespace-separated tokens of t, left to right
TokensOf(t) ==
    LET starts == TokenStarts(t)
        nth(k) == CHOOSE i \in starts : Cardinality({j \in starts : j < i}) = k - 1
    IN  [k \in 1..Cardinality(starts) |-> SubSeq(t, nth(k), TokenEnd(t, nth(k)))]

IllegalTokens(t) ==
    {k \in 1..Len(TokensOf(t)) : Join(TokensOf(t)[k]) \notin Moves}

\* C20: parseNotation(text) returns exactly the whitespace-separated tokens
\* of text, in order, when each is one of the 18 moves (blank text gives the
\* empty sequence); otherwise it fails with an error naming the first token,
\* left to right, that is not a move, and returns nothing.  The scramble
\* field shows that error, or passes on the cube the moves lead to.
C20_ParseNotation ==
    LET toks   == TokensOf(scramble)
        bad    == IllegalTokens(scramble)
        result == parseNotation(scramble)
    IN  IF bad = {}
        THEN /\ result = [threw |-> FALSE, error |-> NoError,
                          moves |-> [k \in 1..Len(toks) |-> Join(toks[k])]]
             /\ \A k \in 1..Len(result.moves) : result.moves[k] \in Moves
             /\ scrambleError = NoError
             /\ \/ scramble = << >> /\ cubeState = NoCube
                \/ cubeState = applyMoves(getSolvedState, result.moves).state
        ELSE LET first == CHOOSE k \in bad : \A j \in bad : k <= j
             IN  /\ result = [threw |-> TRUE, moves |-> << >>,
                               error |-> <<"Invalid move", Join(toks[first])>>]
                 /\ scrambleError = result.error

C20_Witness ==
    /\ Len(TokensOf(scramble)) = 2
    /\ IllegalTokens(scramble) = {1, 2}
    /\ TokensOf(scramble)[1] # TokensOf(scramble)[2]
    /\ scramble[1] \in WhiteSpace
    /\ scrambleError = <<"Invalid move", Join(TokensOf(scramble)[1])>>
    /\ cubeState # NoCube

\* the strings isValidMove is asked about: the text of the field and each
\* of its whitespace-separated tokens
CheckedStrings == {scramble} \cup {TokensOf(scramble)[k] : k \in 1..Len(TokensOf(scramble))}

\* one of U, D, L, R, F, B followed by nothing, an apostrophe or a 2
Canonical(t) ==
    \E face \in {"U", "D", "L", "R", "F", "B"} : \E suffix \in {<< >>, <<"'">>, <<"2">>} :
        t = <<face>> \o suffix

\* C21: isValidMove is true for exactly the 18 strings made of one of
\* U, D, L, R, F, B followed by nothing, an apostrophe or a 2, and false for
\* every other string (empty, lowercase, doubled or unknown letters, other
\* suffixes).
C21_IsValidMoveExact ==
    /\ \A t \in CheckedStrings : isValidMove(t) <=> Canonical(t)
    /\ {t \in CheckedStrings : Canonical(t)} \subseteq {t \in CheckedStrings : Join(t) \in Moves}
    /\ Cardinality(Moves) = 18

C21_Witness ==
    /\ scramble = <<"R", "'", "2">>
    /\ scrambleError = <<"Invalid move", "R'2">>
    /\ ~isValidMove(scramble)

ParityError == <<"Cube configuration is impossible (invalid parity)">>

OutOfVocabulary(v) == \E p \in FaceSet \X (1..9) : v[p[1]][p[2]] \notin ColorSet

C29_ParityNeverReported ==
    \A v \in ValidatedObjects :
        Complete(v) =>
            LET errs == validateCubeState(v).errors
            IN  /\ \A k \in 1..Len(errs) : errs[k] # ParityError
                /\ OutOfVocabulary(v) =>
                      \E k \in 1..Len(errs) : errs[k][1] = "Color"

C29_Witness ==
    /\ pc = "failed"
    /\ Complete(ext.value)
    /\ ext.value["U"][1] = "X"
    /\ lastCall = Called("constructor", <<"Invalid cube state", << <<"Color", "W", 8>> >> >>)

\* ================================================================
\* claims about the stages of solve
\* ================================================================

StagePcs ==
    {"WhiteCross", "WhiteCorners", "MiddleLayer", "YellowCross",
     "PositionYellowCross", "PositionYellowCorners", "OrientYellowCorners"}

\* the cap of the loop solve is in
StageCap ==
    CASE pc = "WhiteCross" -> WhiteCrossCap
      [] pc = "WhiteCorners" -> WhiteCornersCap
      [] pc = "MiddleLayer" -> MiddleLayerCap
      [] pc = "YellowCross" -> YellowCrossCap
      [] pc = "PositionYellowCross" -> PositionYellowCrossCap
      [] pc = "PositionYellowCorners" -> PositionYellowCornersCap
      [] pc = "OrientYellowCorners" -> OrientYellowCornersCap
      [] OTHER -> 0

\* the goal predicate of the loop solve is in
LoopGoal ==
    CASE pc = "WhiteCross" ->
             isWhiteEdgeSolved(workingCube, WhiteCrossEdges[idx].colors[1],
                               WhiteCrossEdges[idx].colors[2])
      [] pc = "WhiteCorners" ->
             isWhiteCornerSolved(workingCube, WhiteCorners[idx][1],
                                 WhiteCorners[idx][2], WhiteCorners[idx][3])
      [] pc = "MiddleLayer" -> isMiddleLayerSolved(workingCube)
      [] pc = "YellowCross" -> hasYellowCross(workingCube)
      [] pc = "PositionYellowCross" -> isYellowCrossPositioned(workingCube)
      [] pc = "PositionYellowCorners" -> areYellowCornersPositioned(workingCube)
      [] pc = "OrientYellowCorners" -> isSolved(workingCube)

\* the loop runs once more / the loop is left
LoopIterates == pc \in StagePcs /\ iterations' = iterations + 1

LoopExits ==
    /\ pc \in StagePcs
    /\ IF pc \in {"WhiteCross", "WhiteCorners"} THEN idx' = idx + 1 ELSE pc' # pc

\* the most moves a stage can add: loops * cap * moves of one iteration
StageMoveBound(name) ==
    CASE name = "White Cross" -> 200
      [] name = "White Corners" -> 800
      [] name = "Middle Layer" -> 800
      [] name = "Yellow Cross" -> 60
      [] name = "Position Yellow Cross" -> 80
      [] name = "Position Yellow Corners" -> 80
      [] name = "Orient Yellow Corners" -> 250

\* C23: for every valid input cube solve terminates; each stage loop stops
\* as soon as its goal predicate holds or after at most its cap of
\* iterations (50 per edge, 50 per corner, 100, 10, 10, 10, 50), so that
\* totalMoves never exceeds 200 + 800 + 800 + 60 + 80 + 80 + 250 = 2270.
C23_SolveTerminates ==
    /\ <>(pc = "done")
    /\ [](iterations <= StageCap)
    /\ [][LoopIterates => ~LoopGoal /\ iterations < StageCap]_vars
    /\ [][LoopExits => LoopGoal \/ iterations = StageCap]_vars
    /\ [](pc = "done" =>
             /\ solution.totalMoves <= 200 + 800 + 800 + 60 + 80 + 80 + 250
             /\ \A k \in 1..Len(solution.steps) :
                   solution.steps[k].moveCount <= StageMoveBound(solution.steps[k].name))

\* a solution in which one loop stopped at its goal and another at its cap
C23_Witness ==
    /\ pc = "done"
    /\ \E k \in 1..Len(solution.steps) :
          solution.steps[k].moveCount = StageMoveBound(solution.steps[k].name)
    /\ \E k \in 1..Len(solution.steps) :
          solution.steps[k].moveCount < StageMoveBound(solution.steps[k].name)
    /\ solution.totalMoves > 2000

\* the bottom-layer corner positions of isWhiteCornerSolved, in the order
\* of the corners of solveWhiteCorners: the D index and the two side
\* stickers <<face, index>>
BottomCornerPositions ==
    << [dIdx |-> 2, sides |-> << <<"F", 6>>, <<"R", 8>> >>],
       [dIdx |-> 8, sides |-> << <<"R", 6>>, <<"B", 8>> >>],
       [dIdx |-> 6, sides |-> << <<"B", 6>>, <<"L", 8>> >>],
       [dIdx |-> 0, sides |-> << <<"L", 6>>, <<"F", 8>> >>] >>

\* corner k is in its own position, white down, each side sticker showing
\* the colour of the centre of its face
CornerHome(s, k) ==
    LET pos == BottomCornerPositions[k]
        side(j) == At(s, pos.sides[j][1], pos.sides[j][2])
        center(j) == At(s, pos.sides[j][1], 4)
    IN  /\ At(s, "D", pos.dIdx) = "W"
        /\ side(1) = center(1)
        /\ side(2) = center(2)
        /\ {side(1), side(2)} = {WhiteCorners[k][2], WhiteCorners[k][3]}

\* C24: the White Corners stage treats a bottom-layer corner as solved
\* exactly when the corner sits in its own bottom-layer position with the
\* bottom colour facing down and both side stickers matching the centres of
\* their faces, and it leaves a corner only when this holds or the cap of
\* 50 iterations is reached.
C24_CornerSolvedMeansHome ==
    (pc = "WhiteCorners" /\ idx <= 4) =>
        /\ LoopGoal <=> CornerHome(workingCube, idx)
        /\ (~WhiteCornersLoop) =>
              CornerHome(workingCube, idx) \/ iterations = WhiteCornersCap

\* the four edge stickers of the top face show the colour of its centre
TopCross(s) == \A i \in {1, 3, 5, 7} : At(s, "U", i) = At(s, "U", 4)

\* C25: the goal predicate of the Yellow Cross stage holds exactly when
\* U[1], U[3], U[5], U[7] equal the top colour, the colour of the U centre
\* U[4] of the cube being solved (W for cubes built from the canonical
\* solved state).
C25_YellowCrossIsTopCross ==
    pc = "YellowCross" =>
        /\ At(workingCube, "U", 4) = "W"
        /\ LoopGoal <=> TopCross(workingCube)

\* the goal predicates of the seven stages on s, in stage order
StageGoals(s) ==
    << \A k \in 1..4 : isWhiteEdgeSolved(s, WhiteCrossEdges[k].colors[1],
                                         WhiteCrossEdges[k].colors[2]),
       \A k \in 1..4 : isWhiteCornerSolved(s, WhiteCorners[k][1], WhiteCorners[k][2],
                                           WhiteCorners[k][3]),
       isMiddleLayerSolved(s),
       hasYellowCross(s),
       isYellowCrossPositioned(s),
       areYellowCornersPositioned(s),
       isSolved(s) >>

\* C27: in the canonical solved state (U=W, D=Y, L=O, R=R, F=G, B=B) the
\* goal predicate of each of the seven stages holds, so that a stage run on
\* a solved cube adds no move: the stage goals are compatible with the
\* state isSolved accepts.
C27_SolvedMeetsStageGoals ==
    (pc = "done" /\ state = getSolvedState /\ isSolved(state)) =>
        \A k \in 1..7 : StageGoals(state)[k]

\* ms repeated n times
RECURSIVE Times(_, _)
Times(ms, n) == IF n = 0 THEN << >> ELSE ms \o Times(ms, n - 1)

\* C28: whenever solve returns a solution whose moves, applied to the input
\* state, do not give a solved cube, the final stage has used up its cap:
\* the last returned step is "Orient Yellow Corners" with exactly 50
\* iterations of R' D' R D followed by U (250 moves); conversely, when that
\* stage ran fewer than 50 iterations the solution solves the cube.
C28_UnsolvedMeansCapReached ==
    /\ [][(pc = "OrientYellowCorners" /\ pc' = "combine") =>
             /\ iterations < OrientYellowCornersCap => isSolved(workingCube)
             /\ ~isSolved(workingCube) =>
                   /\ iterations = OrientYellowCornersCap
                   /\ moves = Times(orientCornersAlg \o <<"U">>, 50)]_vars
    /\ [](pc = "done" =>
             /\ workingCube # NoCube => (isSolved(Replayed) <=> isSolved(workingCube))
             /\ ~isSolved(Replayed) =>
                   LET last == solution.steps[Len(solution.steps)]
                   IN  /\ solution.steps # << >>
                       /\ last.name = "Orient Yellow Corners"
                       /\ last.moveCount = 250
                       /\ last.moves = Times(orientCornersAlg \o <<"U">>, 50))

C28_Witness ==
    /\ pc = "done"
    /\ ~isSolved(Replayed)
    /\ solution.steps[Len(solution.steps)].name = "Orient Yellow Corners"
    /\ solution.steps[Len(solution.steps)].moveCount = 250

\* ================================================================
\* claims about toJSON / fromJSON
\* ================================================================

\* C22: for every handle x in any reachable state, fromJSON(x.toJSON())
\* succeeds and yields a handle whose 54 stickers equal those of x position
\* for position.
C22_JSONRoundTrip ==
    [][(ext.origin = "toJSON" /\ ext.value = toJSON(state)
           /\ lastCall'.op = "fromJSON")
          => /\ lastCall'.error = NoError
             /\ ext'.value = state
             /\ \A f \in FaceSet : \A i \in 0..8 :
                   At(ext'.value, f, i) = At(state, f, i)]_vars

\* ================================================================
\* claims about the playback of the page
\* ================================================================

\* C30: whenever a cube state has been entered (cubeState is not null) the
\* displayed cube state is not null: before a solution exists, and after
\* solving for every currentStepIndex the navigation controls reach, from
\* -1 up to and including the number of non-empty steps.
C30_EnteredCubeIsDisplayed ==
    (pc = "idle" /\ cubeState # NoCube) =>
        /\ home.currentStepIndex \in -1..Len(nonEmptySteps(home.solution))
        /\ displayedCubeState # NoCube

====
